---- MODULE Spec2Model ----
(***************************************************************************)
(* A model of BlockAllocator (src/src/blockAllocator.cpp): a pool of       *)
(* fixed-size blocks carved out of one buffer, a singly linked free list   *)
(* threaded through the block headers, and one mutex around allocate and   *)
(* deallocate.                                                             *)
(*                                                                         *)
(* Addresses and sizes are unsigned words of WordBits bits; pointer and    *)
(* size_t arithmetic wraps modulo 2^WordBits.  Memory is modelled by the   *)
(* words stored in the block headers (the only bytes the allocator reads   *)
(* or writes).                                                             *)
(***************************************************************************)
EXTENDS Integers, FiniteSets, Sequences, TLC

\* ------------------------------------------------------------------ bounds
WordBits == 6
NumThreads == 2
MaxBlocks == 3

\* --------------------------------------------------------------- constants
Modulus == 2 ^ WordBits
\* std::numeric_limits<size_t>::max()
MaxWord == Modulus - 1
Word == 0 .. MaxWord
NULL == 0
\* sizeof(Block*), scaled to the model's word
HeaderSize == 2
\* (Block*)1
\* A slip in the choice of the marker: the null pointer.
InUseFlagIsNull == NULL

InUseFlag == 1

Threads == 1 .. NumThreads
NoThread == 0

\* Addresses the raw memory provider may hand out, and the address of the
\* caller's external buffer.
MallocBases == {8}
ExternalBases == {17}

\* Constructor arguments explored by the concurrent specification.
SizeInputs == {0, 1, 3, MaxWord}
CountInputs == 0 .. MaxBlocks

\* ------------------------------------------------------------- arithmetic
Add(a, b) == (a + b) % Modulus
Sub(a, b) == (a - b + Modulus) % Modulus
Mul(a, b) == (a * b) % Modulus

VARIABLES
    life,                \* "new", "alive", "destroyed", or how construction failed
    memoryPool,          \* constructor argument: external buffer or NULL
    blockSize,
    maxBlocks,
    headerSize,
    blockWithHeaderSize,
    poolType,            \* "unset", "Internal", "External"
    blockInUseFlag,
    startHeader,
    endHeader,
    headHeader,
    mem,                 \* header address -> the word stored in Block::next
    mutex,               \* NoThread, or the thread that holds it
    sys,                 \* the raw memory provider: what was asked of it
    pc,                  \* per thread: position inside allocate/deallocate
    arg,                 \* per thread: the argument of deallocate
    loc,                 \* per thread: the local freeBlock / header
    held,                \* per thread: the addresses it got and has not given back
    last,                \* the last call that returned, and how
    asked,               \* the last isBlockAddress query and its answer
    phase                \* per thread: where it is in the program it runs

poolVars == <<life, memoryPool, blockSize, maxBlocks, headerSize, blockWithHeaderSize,
              poolType, blockInUseFlag, startHeader, endHeader>>
vars == <<life, memoryPool, blockSize, maxBlocks, headerSize, blockWithHeaderSize,
          poolType, blockInUseFlag, startHeader, endHeader, headHeader, mem, mutex,
          sys, pc, arg, loc, held, last, asked, phase>>

NoCall == [op |-> "none", arg |-> NULL, status |-> "ok", addr |-> NULL,
           after |-> NULL, seq |-> 0, erred |-> FALSE, traced |-> FALSE,
           run |-> <<>>, taking |-> FALSE]

\* The same, for the specification that keeps the run of frees on record.
NoCallTraced == [NoCall EXCEPT !.traced = TRUE]

NoQuery == [addr |-> NULL, answer |-> "none"]

\* ------------------------------------------------------------ construction
getHeaderSize == HeaderSize

\* A slip in the check: the guard of the subtraction is left out, so it wraps.
isSizeCorrectUnguarded(blockByteSize, numOfBlocks) ==
    LET maxBlockWithHeaderSize == MaxWord \div numOfBlocks
    IN  blockByteSize <= Sub(maxBlockWithHeaderSize, HeaderSize)

isSizeCorrect(blockByteSize, numOfBlocks) ==
    LET maxBlockWithHeaderSize == MaxWord \div numOfBlocks
    IN  IF maxBlockWithHeaderSize < getHeaderSize
        THEN FALSE
        ELSE blockByteSize <= Sub(maxBlockWithHeaderSize, HeaderSize)

RECURSIVE BuildLoop(_, _, _, _)
BuildLoop(i, endH, stride, m) ==
    IF i < endH
    THEN BuildLoop(Add(i, stride), endH, stride, (i :> Add(i, stride)) @@ m)
    ELSE m

\* A slip in the loop bound: the last link is never written.
buildBlocksListStopsEarly(startH, endH, stride) ==
    (endH :> NULL) @@ BuildLoop(startH, Sub(endH, stride), stride, <<>>)

buildBlocksList(startH, endH, stride) ==
    (endH :> NULL) @@ BuildLoop(startH, endH, stride, <<>>)

\* The bytes a pool of these parameters needs, in unbounded arithmetic.
BytesNeeded(size, blocks) == (size + HeaderSize) * blocks

\* A buffer of n bytes exists at base
Fits(base, n) == base + n <= Modulus

\* malloc(n): NULL, or the base of n fresh bytes
MallocResults(n) == {NULL} \cup {b \in MallocBases : Fits(b, n)}

SetupInitFrom(sizes, counts, bases, call) ==
    /\ life = "new"
    /\ blockSize \in sizes
    /\ maxBlocks \in counts
    /\ memoryPool \in {NULL} \cup bases
    /\ memoryPool # NULL /\ blockSize # 0 /\ maxBlocks # 0
          /\ isSizeCorrect(blockSize, maxBlocks)
          => Fits(memoryPool, BytesNeeded(blockSize, maxBlocks))
    /\ headerSize = HeaderSize
    /\ blockWithHeaderSize = 0
    /\ poolType = "unset"
    /\ blockInUseFlag = NULL
    /\ startHeader = NULL
    /\ endHeader = NULL
    /\ headHeader = NULL
    /\ mem = <<>>
    /\ mutex = NoThread
    /\ sys = [requested |-> -1, buffer |-> NULL, released |-> 0]
    /\ pc = [t \in Threads |-> "idle"]
    /\ arg = [t \in Threads |-> NULL]
    /\ loc = [t \in Threads |-> NULL]
    /\ held = [t \in Threads |-> {}]
    /\ last = call
    /\ asked = NoQuery
    /\ phase = [t \in Threads |-> "free"]

SetupInitAt(sizes, counts, bases) == SetupInitFrom(sizes, counts, bases, NoCall)

SetupInit(sizes, counts) == SetupInitAt(sizes, counts, ExternalBases)

Init == SetupInit(SizeInputs, CountInputs)

envVars == <<sys, asked, phase>>
threadVars == <<mutex, pc, arg, loc, held, last, asked, phase>>

\* A slip in the check: only the size is looked at.
hasZeroSize(size, blocks) == size = 0

\* line 11: the parameters the constructor rejects before computing anything
hasZeroParameter(size, blocks) == size = 0 \/ blocks = 0

\* line 47 divides by numOfBlocks: with numOfBlocks = 0 the division traps
divisionTraps(numOfBlocks) == numOfBlocks = 0

\* A slip in the check: malloc's result is used unchecked.
mallocNeverFails(start) == FALSE

\* line 26
mallocFailed(start) == start = NULL

\* A slip in the test: every pool is taken for an internal one.
usesInternalPoolAlways(pool) == TRUE

\* line 21
usesInternalPool(pool) == pool = NULL

\* A slip in the stride: the block size is raised to the header size first.
blockWithHeaderClamped(size) ==
    Add(IF size < headerSize THEN headerSize ELSE size, headerSize)

\* line 17
blockWithHeader(size) == Add(size, headerSize)

Construct ==
    /\ life = "new"
    /\ UNCHANGED <<memoryPool, blockSize, maxBlocks, headerSize, threadVars>>
    /\ IF hasZeroParameter(blockSize, maxBlocks)
       THEN /\ life' = "InvalidParameters"
            /\ UNCHANGED <<blockWithHeaderSize, poolType, blockInUseFlag, startHeader,
                           endHeader, headHeader, mem, sys>>
       ELSE IF divisionTraps(maxBlocks)
       THEN /\ life' = "DivisionByZero"
            /\ UNCHANGED <<blockWithHeaderSize, poolType, blockInUseFlag, startHeader,
                           endHeader, headHeader, mem, sys>>
       ELSE IF ~isSizeCorrect(blockSize, maxBlocks)
       THEN /\ life' = "InvalidParameters"
            /\ UNCHANGED <<blockWithHeaderSize, poolType, blockInUseFlag, startHeader,
                           endHeader, headHeader, mem, sys>>
       ELSE LET stride == blockWithHeader(blockSize)
                bytes == Mul(stride, maxBlocks)
            IN  /\ blockWithHeaderSize' = stride
                /\ IF usesInternalPool(memoryPool)
                   THEN /\ poolType' = "Internal"
                        /\ startHeader' \in MallocResults(bytes)
                        /\ sys' = [sys EXCEPT !.requested = bytes,
                                               !.buffer = startHeader']
                   ELSE /\ poolType' = "External"
                        /\ sys' = sys
                        /\ startHeader' = memoryPool
                /\ IF mallocFailed(startHeader')
                   THEN /\ life' = "OutOfSystemMemory"
                        /\ UNCHANGED <<blockInUseFlag, endHeader, headHeader, mem>>
                   ELSE /\ life' = "alive"
                        /\ blockInUseFlag' = InUseFlag
                        /\ endHeader' = Add(startHeader', Mul(stride, Sub(maxBlocks, 1)))
                        /\ headHeader' = startHeader'
                        /\ mem' = buildBlocksList(startHeader', endHeader', stride)

\* ---------------------------------------------------------------- queries
\* A slip in the check: the stride test is left out.
isBlockAddressAnyOffset(block) ==
    LET header == Sub(block, headerSize)
    IN  ~(block = NULL \/ header > endHeader \/ header < startHeader)

isBlockAddress(block) ==
    LET header == Sub(block, headerSize)
    IN  IF block = NULL \/ header > endHeader \/ header < startHeader
        THEN FALSE
        ELSE LET reminder == Sub(header, startHeader) % blockWithHeaderSize
             IN  reminder = 0

\* The word stored in the header at address h.  Every header the allocator
\* dereferences is one of the pool's (NoStrayAccess below); were it to read
\* elsewhere it would find whatever lies there, and the model takes the one
\* word that lets such a read pass for a block in use.
Next_(h) == IF h \in DOMAIN mem THEN mem[h] ELSE blockInUseFlag

\* A slip in the check: the in-use marker is not looked at.
isBlockInUseAnyBlock(block) == isBlockAddress(block)

isBlockInUse(block) ==
    IF ~isBlockAddress(block)
    THEN FALSE
    ELSE LET header == Sub(block, headerSize)
         IN  Next_(header) = blockInUseFlag

getBlockSize == blockSize

getPoolType == poolType

\* ------------------------------------------------------------ the mutex
\* A slip in the locking: the mutex is taken without waiting for it.
lockAcquireNoWait(t) == mutex' = t

\* std::lock_guard's constructor: blocks until the mutex is free
lockAcquire(t) ==
    /\ mutex = NoThread
    /\ mutex' = t

\* std::lock_guard's destructor, run on return and on a throw alike
lockRelease(t) == mutex' = IF mutex = t THEN NoThread ELSE mutex

\* ------------------------------------------------------- the call record
\* What the call that returns now was preceded by: the address the previous
\* call freed (if it was a successful deallocate), and for an allocate its
\* position in the run of allocate calls that started at construction; and
\* whether any call so far has thrown.
FreedBefore == IF last.op = "deallocate" /\ last.status = "ok" THEN last.arg ELSE NULL

SeqNow ==
    IF last.op = "none" THEN 1
    ELSE IF last.op = "allocate" /\ last.seq > 0
         THEN (IF last.seq > maxBlocks THEN last.seq ELSE last.seq + 1)
         ELSE 0

\* The run of frees: the addresses given back by successive successful
\* deallocate calls with no allocate among them, oldest first; once allocate
\* calls follow, each takes the newest address off the run, and a deallocate
\* after them starts a new run. Calls that throw leave the run alone. The
\* run is kept only where the specification asks for it (last.traced).
RunNow(op, a, status) ==
    IF ~last.traced \/ status # "ok" THEN last.run
    ELSE IF op = "deallocate"
         THEN (IF last.taking THEN <<a>> ELSE Append(last.run, a))
         ELSE (IF last.run = <<>> THEN <<>>
               ELSE SubSeq(last.run, 1, Len(last.run) - 1))

TakingNow(op, a, status) ==
    IF status # "ok" THEN last.taking
    ELSE op = "allocate" /\ RunNow(op, a, status) # <<>>

Returned(op, a, status, addr) ==
    last' = [op |-> op, arg |-> a, status |-> status, addr |-> addr,
             after |-> FreedBefore, seq |-> IF op = "allocate" THEN SeqNow ELSE 0,
             erred |-> last.erred \/ status # "ok",
             traced |-> last.traced,
             run |-> RunNow(op, a, status),
             taking |-> TakingNow(op, a, status)]

\* ---------------------------------------------------------------- allocate
CallAllocate(t) ==
    /\ life = "alive"
    /\ pc[t] = "idle"
    /\ mutex # NoThread
    /\ pc' = [pc EXCEPT ![t] = "a_lock"]
    /\ UNCHANGED <<poolVars, headHeader, mem, mutex, envVars, arg, loc, held, last>>

\* A slip in the locking: allocate runs without the lock_guard.
AllocLockMissing(t) ==
    /\ life = "alive"
    /\ pc[t] \in {"idle", "a_lock"}
    /\ pc' = [pc EXCEPT ![t] = "a_check"]
    /\ UNCHANGED <<poolVars, headHeader, mem, mutex, envVars, arg, loc, held, last>>

\* line 74.  A call that finds the mutex taken waits at "a_lock"; a call is
\* made and the mutex acquired in one step when it is free.
AllocLock(t) ==
    /\ life = "alive"
    /\ pc[t] \in {"idle", "a_lock"}
    /\ lockAcquire(t)
    /\ pc' = [pc EXCEPT ![t] = "a_check"]
    /\ UNCHANGED <<poolVars, headHeader, mem, envVars, arg, loc, held, last>>

\* lines 75-80
\* A slip in the test: the pool counts as exhausted while its last free
\* block is still on the list.
poolIsEmptyAtLast == headHeader = NULL \/ Next_(headHeader) = NULL

\* line 75
poolIsEmpty == headHeader = NULL

AllocCheck(t) ==
    /\ pc[t] = "a_check"
    /\ IF poolIsEmpty
       THEN /\ lockRelease(t)
            /\ Returned("allocate", NULL, "OutOfAllocatableMemory", NULL)
            /\ pc' = [pc EXCEPT ![t] = "idle"]
            /\ loc' = loc
       ELSE /\ loc' = [loc EXCEPT ![t] = headHeader]
            /\ pc' = [pc EXCEPT ![t] = "a_advance"]
            /\ UNCHANGED <<mutex, last>>
    /\ UNCHANGED <<poolVars, headHeader, mem, envVars, arg, held>>

\* A slip in the advance: the head moves one stride on instead of following
\* the link stored in the header.
AllocAdvanceByStride(t) ==
    /\ pc[t] = "a_advance"
    /\ headHeader' = IF headHeader = endHeader
                     THEN NULL
                     ELSE Add(headHeader, blockWithHeaderSize)
    /\ pc' = [pc EXCEPT ![t] = "a_stamp"]
    /\ UNCHANGED <<poolVars, mem, mutex, envVars, arg, loc, held, last>>

\* line 81
AllocAdvance(t) ==
    /\ pc[t] = "a_advance"
    /\ headHeader' = Next_(headHeader)
    /\ pc' = [pc EXCEPT ![t] = "a_stamp"]
    /\ UNCHANGED <<poolVars, mem, mutex, envVars, arg, loc, held, last>>

\* A slip in the marking: the header taken off the list keeps its link.
AllocStampSkipped(t) ==
    /\ pc[t] = "a_stamp"
    /\ pc' = [pc EXCEPT ![t] = "a_return"]
    /\ UNCHANGED <<poolVars, headHeader, mem, mutex, envVars, arg, loc, held, last>>

\* line 82
AllocStamp(t) ==
    /\ pc[t] = "a_stamp"
    /\ mem' = [mem EXCEPT ![loc[t]] = blockInUseFlag]
    /\ pc' = [pc EXCEPT ![t] = "a_return"]
    /\ UNCHANGED <<poolVars, headHeader, mutex, envVars, arg, loc, held, last>>

\* A slip in the return value: the header's address instead of the payload's.
AllocReturnsHeader(t) ==
    /\ pc[t] = "a_return"
    /\ LET block == loc[t]
       IN  /\ Returned("allocate", NULL, "ok", block)
           /\ held' = [held EXCEPT ![t] = @ \cup {block}]
    /\ lockRelease(t)
    /\ loc' = [loc EXCEPT ![t] = NULL]
    /\ pc' = [pc EXCEPT ![t] = "idle"]
    /\ UNCHANGED <<poolVars, headHeader, mem, envVars, arg>>

\* lines 84-85
AllocReturn(t) ==
    /\ pc[t] = "a_return"
    /\ LET block == Add(loc[t], getHeaderSize)
       IN  /\ Returned("allocate", NULL, "ok", block)
           /\ held' = [held EXCEPT ![t] = @ \cup {block}]
    /\ lockRelease(t)
    /\ loc' = [loc EXCEPT ![t] = NULL]
    /\ pc' = [pc EXCEPT ![t] = "idle"]
    /\ UNCHANGED <<poolVars, headHeader, mem, envVars, arg>>

\* -------------------------------------------------------------- deallocate
firstBlock == Add(startHeader, headerSize)
lastBlock == Add(endHeader, headerSize)

BlockAddrs == {Add(h, headerSize) : h \in DOMAIN mem}

\* The addresses deallocate is tried with: every block of the pool, and
\* addresses that are no block: NULL, one byte either side of the first and
\* of the last block, and one stride below the first and above the last.
DeallocInputs ==
    BlockAddrs \cup
    {NULL, Sub(firstBlock, 1), Add(firstBlock, 1), Sub(lastBlock, 1), Add(lastBlock, 1),
     Sub(firstBlock, blockWithHeaderSize), Add(lastBlock, blockWithHeaderSize)}

Held == UNION {held[t] : t \in Threads}

\* The callers' discipline: a thread gives back an address it holds, or tries
\* an address that no thread holds (a free block, or no block at all); it
\* never frees a block out of another thread's hands.
MayDeallocate(t) == {block \in DeallocInputs : block \in held[t] \/ block \notin Held}

CallDeallocate(t) ==
    /\ life = "alive"
    /\ pc[t] = "idle"
    /\ mutex # NoThread
    /\ pc' = [pc EXCEPT ![t] = "d_lock"]
    /\ UNCHANGED <<poolVars, headHeader, mem, mutex, envVars, arg, loc, held, last>>

\* line 99; the argument the call was made with is fixed here, where it is
\* first read
DeallocLock(t) ==
    /\ life = "alive"
    /\ pc[t] \in {"idle", "d_lock"}
    /\ lockAcquire(t)
    /\ \E block \in MayDeallocate(t) : arg' = [arg EXCEPT ![t] = block]
    /\ pc' = [pc EXCEPT ![t] = "d_check"]
    /\ UNCHANGED <<poolVars, headHeader, mem, envVars, loc, held, last>>

\* A slip in the locking: the throw leaves the mutex locked (a hand-written
\* lock()/unlock() pair in place of the lock_guard).
DeallocCheckKeepsLock(t) ==
    /\ pc[t] = "d_check"
    /\ IF ~isBlockInUse(arg[t])
       THEN /\ Returned("deallocate", arg[t], "InvalidBlockAddress", NULL)
            /\ pc' = [pc EXCEPT ![t] = "idle"]
            /\ arg' = [arg EXCEPT ![t] = NULL]
            /\ UNCHANGED <<mutex, loc>>
       ELSE /\ loc' = [loc EXCEPT ![t] = Sub(arg[t], headerSize)]
            /\ pc' = [pc EXCEPT ![t] = "d_link"]
            /\ UNCHANGED <<mutex, last, arg>>
    /\ UNCHANGED <<poolVars, headHeader, mem, envVars, held>>

\* lines 100-105
DeallocCheck(t) ==
    /\ pc[t] = "d_check"
    /\ IF ~isBlockInUse(arg[t])
       THEN /\ lockRelease(t)
            /\ Returned("deallocate", arg[t], "InvalidBlockAddress", NULL)
            /\ pc' = [pc EXCEPT ![t] = "idle"]
            /\ arg' = [arg EXCEPT ![t] = NULL]
            /\ loc' = loc
       ELSE /\ loc' = [loc EXCEPT ![t] = Sub(arg[t], headerSize)]
            /\ pc' = [pc EXCEPT ![t] = "d_link"]
            /\ UNCHANGED <<mutex, last, arg>>
    /\ UNCHANGED <<poolVars, headHeader, mem, envVars, held>>

\* A slip in the link: the header is cleared instead of pointed at the head.
DeallocLinkCutsList(t) ==
    /\ pc[t] = "d_link"
    /\ mem' = [mem EXCEPT ![loc[t]] = NULL]
    /\ pc' = [pc EXCEPT ![t] = "d_head"]
    /\ UNCHANGED <<poolVars, headHeader, mutex, envVars, arg, loc, held, last>>

\* line 107
DeallocLink(t) ==
    /\ pc[t] = "d_link"
    /\ mem' = [mem EXCEPT ![loc[t]] = headHeader]
    /\ pc' = [pc EXCEPT ![t] = "d_head"]
    /\ UNCHANGED <<poolVars, headHeader, mutex, envVars, arg, loc, held, last>>

\* A slip in the push: the head is moved only when the list was empty.
DeallocHeadKeepsHead(t) ==
    /\ pc[t] = "d_head"
    /\ headHeader' = IF headHeader = NULL THEN loc[t] ELSE headHeader
    /\ pc' = [pc EXCEPT ![t] = "d_return"]
    /\ UNCHANGED <<poolVars, mem, mutex, envVars, arg, loc, held, last>>

\* line 109
DeallocHead(t) ==
    /\ pc[t] = "d_head"
    /\ headHeader' = loc[t]
    /\ pc' = [pc EXCEPT ![t] = "d_return"]
    /\ UNCHANGED <<poolVars, mem, mutex, envVars, arg, loc, held, last>>

\* line 110
DeallocReturn(t) ==
    /\ pc[t] = "d_return"
    /\ Returned("deallocate", arg[t], "ok", NULL)
    /\ held' = [u \in Threads |-> held[u] \ {arg[t]}]
    /\ lockRelease(t)
    /\ arg' = [arg EXCEPT ![t] = NULL]
    /\ loc' = [loc EXCEPT ![t] = NULL]
    /\ pc' = [pc EXCEPT ![t] = "idle"]
    /\ UNCHANGED <<poolVars, headHeader, mem, envVars>>

\* ---------------------------------------------------------------- teardown
\* A slip in the test: the pool type is not looked at.
ownsBufferAnyType == startHeader # NULL

\* line 141
ownsBuffer == poolType = "Internal" /\ startHeader # NULL

Destroy ==
    /\ life = "alive"
    /\ \A t \in Threads : pc[t] = "idle"
    /\ life' = "destroyed"
    /\ sys' = IF ownsBuffer
              THEN [sys EXCEPT !.released = @ + 1]
              ELSE sys
    /\ UNCHANGED <<memoryPool, blockSize, maxBlocks, headerSize, blockWithHeaderSize,
                   poolType, blockInUseFlag, startHeader, endHeader, headHeader, mem,
                   threadVars>>

\* ----------------------------------------------------------- specification
Allocate(t) ==
    \/ AllocLock(t)
    \/ AllocCheck(t)
    \/ AllocAdvance(t)
    \/ AllocStamp(t)
    \/ AllocReturn(t)

Deallocate(t) ==
    \/ DeallocLock(t)
    \/ DeallocCheck(t)
    \/ DeallocLink(t)
    \/ DeallocHead(t)
    \/ DeallocReturn(t)

Next ==
    \/ Construct
    \/ \E t \in Threads : Allocate(t)
    \/ \E t \in Threads : Deallocate(t)
    \/ Destroy

Spec == Init /\ [][Next]_vars

\* Construction over every pair of words, then isBlockAddress asked of any
\* address of the new pool (it reads only what construction set), or the
\* new pool torn down, or one thread filling the pool.
QueryBlockAddress(block) ==
    /\ life = "alive"
    /\ \A t \in Threads : pc[t] = "idle"
    /\ last = NoCall
    /\ asked = NoQuery
    /\ asked' = [addr |-> block,
                 answer |-> IF isBlockAddress(block) THEN "true" ELSE "false"]
    /\ UNCHANGED <<poolVars, headHeader, mem, sys, mutex, pc, arg, loc, held, last,
                   phase>>

InitSetup == SetupInit(Word, Word)

NextSetup ==
    \/ Construct
    \/ asked = NoQuery /\ Allocate(1)
    \/ \E block \in Word : QueryBlockAddress(block)
    \/ last = NoCall /\ asked = NoQuery /\ Destroy

SpecSetup == InitSetup /\ [][NextSetup]_vars

\* The same allocator with the waiting made visible: a call that finds the
\* mutex taken waits for it.  Scheduling is fair: a thread inside a call keeps
\* running, and a thread that waits for a mutex that is free again and again
\* gets it in the end.
Waiting(t) == pc[t] \in {"a_lock", "d_lock"}

Acquire(t) == Waiting(t) /\ (AllocLock(t) \/ DeallocLock(t))

Run(t) ==
    \/ AllocCheck(t)
    \/ AllocAdvance(t)
    \/ AllocStamp(t)
    \/ AllocReturn(t)
    \/ DeallocCheck(t)
    \/ DeallocLink(t)
    \/ DeallocHead(t)
    \/ DeallocReturn(t)

NextFair ==
    \/ Next
    \/ \E t \in Threads : CallAllocate(t)
    \/ \E t \in Threads : CallDeallocate(t)

Fairness == \A t \in Threads : WF_vars(Run(t)) /\ SF_vars(Acquire(t))

\* Pools of a single block: the waiting multiplies the states, and what is
\* checked here is the mutex, which neither reads nor depends on the pool's
\* size.  One block is enough for all four outcomes of a call.
InitFair == SetupInit({1}, {1})

FairSpec == InitFair /\ [][NextFair]_vars /\ Fairness

\* ------------------------------------------------------------------ claims
\* The payload address of the k-th block (k = 1 .. maxBlocks), without wrap.
BlockNo(k) == startHeader + headerSize + (k - 1) * (blockSize + headerSize)

C2_AscendingByStride ==
    last.op = "allocate" /\ last.seq \in 1 .. maxBlocks =>
        /\ last.status = "ok"
        /\ startHeader = (IF memoryPool # NULL THEN memoryPool ELSE sys.buffer)
        /\ last.addr = BlockNo(last.seq)

C2_Witness ==
    /\ last.op = "allocate"
    /\ last.seq = 4
    /\ last.addr = BlockNo(4)
    /\ poolType = "External"

\* C3: a successful deallocate(x) followed, with no other call in between, by
\* allocate() makes that allocate return x.
C3_LifoReuse ==
    last.op = "allocate" /\ last.after # NULL =>
        /\ last.status = "ok"
        /\ last.addr = last.after

C3_Witness ==
    /\ last.op = "allocate"
    /\ last.after # NULL
    /\ last.addr = last.after
    /\ last.addr # firstBlock
    /\ headHeader # NULL
    /\ Held # {last.addr}

\* The payload addresses of the pool's blocks, by plain arithmetic.
AllBlocks == {BlockNo(k) : k \in 1 .. maxBlocks}

\* The free list read from headHeader, as the sequence of headers met (at most
\* n of them).
RECURSIVE Chain(_, _)
Chain(h, n) ==
    IF h = NULL \/ n = 0 \/ h \notin DOMAIN mem
    THEN <<>>
    ELSE <<h>> \o Chain(mem[h], n - 1)

FreeList == Chain(headHeader, maxBlocks + 1)

\* Thread t's deallocate decides in this step (it throws or goes on to push).
DeallocDecides(t) == pc[t] = "d_check" /\ pc'[t] # "d_check"

\* The step is a deallocate(a) of thread t that throws InvalidBlockAddress and
\* leaves the free list as it was.
Rejected(t) ==
    /\ pc'[t] = "idle"
    /\ last'.op = "deallocate"
    /\ last'.arg = arg[t]
    /\ last'.status = "InvalidBlockAddress"
    /\ headHeader' = headHeader
    /\ mem' = mem
    /\ FreeList' = FreeList

\* The allocator only ever dereferences headers of its own pool.
NoStrayAccess ==
    \A t \in Threads :
        /\ pc[t] = "a_advance" => headHeader \in DOMAIN mem
        /\ pc[t] \in {"a_stamp", "d_link"} => loc[t] \in DOMAIN mem
        /\ pc[t] = "d_check" /\ isBlockAddress(arg[t])
              => Sub(arg[t], headerSize) \in DOMAIN mem

\* C4: deallocate(a) of a block address a whose block is not in use (never
\* allocated, or already freed) throws InvalidBlockAddress and changes neither
\* headHeader nor any header nor the free list; the second of two deallocate
\* calls on the same address fails.
C4_FreeBlockRejected ==
    /\ [][\A t \in Threads :
            DeallocDecides(t) /\ arg[t] \in AllBlocks /\ arg[t] \notin Held
                => Rejected(t)]_vars
    /\ [](last.op = "deallocate" /\ last.after # NULL /\ last.arg = last.after
            => last.status = "InvalidBlockAddress")

C4_Witness ==
    /\ last.op = "deallocate"
    /\ last.status = "InvalidBlockAddress"
    /\ last.arg \in AllBlocks
    /\ last.after = last.arg
    /\ Held # {}
    /\ Len(FreeList) >= 2

\* C5: deallocate(a) of an address that is no block address (NULL, header
\* below startHeader or above endHeader, or off the stride) throws
\* InvalidBlockAddress in every state and changes no header and not headHeader.
C5_NonBlockRejected ==
    /\ [][\A t \in Threads :
            DeallocDecides(t) /\ arg[t] \notin AllBlocks => Rejected(t)]_vars
    /\ []NoStrayAccess

C5_Witness ==
    /\ last.op = "deallocate"
    /\ last.status = "InvalidBlockAddress"
    /\ last.arg = Add(lastBlock, 1)
    /\ Cardinality(Held) = maxBlocks
    /\ maxBlocks >= 2

\* C6: isBlockAddress(a) is true exactly for the maxBlocks addresses
\* startHeader + headerSize + k * (blockSize + headerSize), k in [0, maxBlocks),
\* among them every address allocate returns, and false for every other word.
C6_BlockAddressExact ==
    life = "alive" =>
        /\ \A a \in Word : isBlockAddress(a) <=> a \in AllBlocks
        /\ Cardinality(AllBlocks) = maxBlocks
        /\ asked.answer # "none" => (asked.answer = "true" <=> asked.addr \in AllBlocks)
        /\ last.op = "allocate" /\ last.status = "ok"
              => last.addr \in AllBlocks /\ isBlockAddress(last.addr)

C6_Witness ==
    /\ asked.answer = "false"
    /\ Sub(asked.addr, headerSize) > startHeader
    /\ Sub(asked.addr, headerSize) < endHeader
    /\ blockSize < headerSize

\* C7: with threads that give back only what they hold, no address is held by
\* two threads at once, allocate never returns an address that is still held,
\* and at most maxBlocks addresses are live.
C7_NoSharedBlock ==
    /\ [](\A t, u \in Threads : t # u => held[t] \cap held[u] = {})
    /\ [](life = "alive" => Held \subseteq AllBlocks /\ Cardinality(Held) <= maxBlocks)
    /\ [][\A t \in Threads :
            pc[t] = "a_return" /\ pc'[t] = "idle" => last'.addr \notin Held]_vars

C7_Witness ==
    /\ \A t \in Threads : held[t] # {}
    /\ Cardinality(Held) = maxBlocks
    /\ last.op = "allocate"
    /\ last.status = "ok"
    /\ last.after # NULL

\* C9: construction with blockSize = 0 or maxBlocks = 0 fails with
\* InvalidParameters, for owned and external pools, before any size is computed
\* or memory acquired; nothing is divided by a zero maxBlocks and no pool exists.
C9_ZeroRejectedFirst ==
    life # "new" /\ (blockSize = 0 \/ maxBlocks = 0) =>
        /\ life = "InvalidParameters"
        /\ blockWithHeaderSize = 0
        /\ sys.requested = -1
        /\ sys.buffer = NULL
        /\ poolType = "unset"
        /\ startHeader = NULL
        /\ mem = <<>>

C9_Witness ==
    /\ life = "InvalidParameters"
    /\ blockSize # 0
    /\ maxBlocks = 0
    /\ memoryPool # NULL

\* C10: for nonzero parameters construction fails with InvalidParameters exactly
\* when (blockSize + headerSize) * maxBlocks, computed without wrap, exceeds the
\* largest word; what passes is sized without any value wrapping.
C10_OverflowRejected ==
    life # "new" /\ blockSize # 0 /\ maxBlocks # 0 =>
        /\ life = "InvalidParameters" <=> BytesNeeded(blockSize, maxBlocks) > MaxWord
        /\ life # "InvalidParameters" =>
              /\ blockWithHeaderSize = blockSize + HeaderSize
              /\ MaxWord \div maxBlocks >= HeaderSize
              /\ blockSize <= (MaxWord \div maxBlocks) - HeaderSize
              /\ poolType = "Internal" => sys.requested = BytesNeeded(blockSize, maxBlocks)

C10_Witness ==
    /\ life = "InvalidParameters"
    /\ blockSize # 0
    /\ maxBlocks # 0
    /\ MaxWord \div maxBlocks < HeaderSize
    /\ blockSize > HeaderSize

ValidParameters ==
    blockSize # 0 /\ maxBlocks # 0 /\ BytesNeeded(blockSize, maxBlocks) <= MaxWord

\* C11: with no external buffer and valid parameters construction asks the
\* memory provider for exactly (blockSize + headerSize) * maxBlocks bytes; if
\* the provider fails construction fails with OutOfSystemMemory, no free list
\* is built, no pool exists and nothing is released.
C11_OutOfSystemMemory ==
    life # "new" /\ memoryPool = NULL /\ ValidParameters =>
        /\ sys.requested = BytesNeeded(blockSize, maxBlocks)
        /\ sys.buffer = NULL =>
              /\ life = "OutOfSystemMemory"
              /\ mem = <<>>
              /\ headHeader = NULL
              /\ blockInUseFlag = NULL
              /\ sys.released = 0
              /\ ~ENABLED Destroy
        /\ sys.buffer # NULL => life \in {"alive", "destroyed"}

C11_Witness ==
    /\ life = "OutOfSystemMemory"
    /\ maxBlocks >= 2
    /\ sys.requested = BytesNeeded(blockSize, maxBlocks)
    /\ Fits(8, sys.requested)

\* The constructor returned normally (the pool may have been torn down since).
Constructed == life \in {"alive", "destroyed"}

\* C12: getPoolType() is Internal exactly when the pool was constructed
\* without an external buffer and External exactly when it was constructed
\* with one; construction over an external buffer never calls the memory
\* provider and never fails with OutOfSystemMemory; no allocate or deallocate
\* step changes the pool type.
C12_PoolType ==
    /\ [](/\ Constructed =>
                /\ getPoolType = "Internal" <=> memoryPool = NULL
                /\ getPoolType = "External" <=> memoryPool # NULL
          /\ life # "new" /\ memoryPool # NULL =>
                /\ sys.requested = -1
                /\ sys.buffer = NULL
                /\ life # "OutOfSystemMemory")
    /\ [][life = "alive" => getPoolType' = getPoolType]_vars

C12_Witness ==
    /\ life = "alive"
    /\ getPoolType = "External"
    /\ memoryPool # NULL
    /\ last.op = "deallocate"
    /\ last.status = "ok"
    /\ sys.requested = -1

\* C13: tearing the pool down releases the backing buffer exactly once when
\* the pool is internal, and the buffer released is the one malloc returned;
\* when the pool is external nothing is released and the caller's buffer keeps
\* its contents, whatever allocate and deallocate calls came before.
C13_TeardownReleasesOwned ==
    /\ [](/\ sys.released = IF life = "destroyed" /\ poolType = "Internal"
                            THEN 1 ELSE 0
          /\ Constructed /\ poolType = "Internal" =>
                startHeader = sys.buffer /\ startHeader # NULL)
    /\ [][life = "alive" /\ life' = "destroyed" =>
            /\ mem' = mem
            /\ poolType = "External" => sys' = sys /\ sys.buffer = NULL]_vars

C13_Witness ==
    /\ life = "destroyed"
    /\ poolType = "External"
    /\ sys.released = 0
    /\ last.op = "deallocate"
    /\ last.status = "ok"
    /\ Held # {}

\* The headers on the free list.
FreeHeaders == {FreeList[i] : i \in 1 .. Len(FreeList)}

\* The pool as the calls see it: the parameters, the headers and the list head.
PoolState == <<poolVars, headHeader, mem>>

\* Thread t's call throws in this step.
Throws(t, status) ==
    /\ pc[t] \in {"a_check", "d_check"}
    /\ pc'[t] = "idle"
    /\ last'.status = status

\* C14: OutOfAllocatableMemory is recoverable. An allocate that fails on a
\* full pool writes no header and leaves the list head alone; a successful
\* deallocate(x) after it makes the next allocate succeed and return x; and
\* whether earlier calls have thrown has no part in what a call does: every
\* call is decided by the headers and the list head alone, and a throwing call
\* leaves both as they were.
C14_Recoverable ==
    /\ [][\A t \in Threads :
            /\ Throws(t, "OutOfAllocatableMemory") =>
                  /\ headHeader = NULL
                  /\ PoolState' = PoolState
                  /\ held' = held
                  /\ mutex' = NoThread
            /\ Throws(t, "InvalidBlockAddress") =>
                  /\ ~(isBlockAddress(arg[t]) /\ Next_(Sub(arg[t], headerSize)) = blockInUseFlag)
                  /\ PoolState' = PoolState
                  /\ held' = held
                  /\ mutex' = NoThread
            /\ pc[t] = "a_check" /\ headHeader # NULL =>
                  pc'[t] \in {"a_check", "a_advance"}
            /\ pc[t] = "d_check" /\ arg[t] \in AllBlocks \ {h + headerSize : h \in FreeHeaders} =>
                  pc'[t] \in {"d_check", "d_link"}]_vars
    /\ [](last.erred /\ last.op = "allocate" /\ last.after # NULL =>
            last.status = "ok" /\ last.addr = last.after)
    /\ [](last.erred /\ life = "alive" /\ mutex = NoThread =>
            /\ Len(FreeList) + Cardinality(Held) = maxBlocks
            /\ headHeader = NULL <=> Cardinality(Held) = maxBlocks)

\* An allocate failed on the full pool, a block was given back and the next
\* allocate got it, filling the pool again.
C14_Witness ==
    /\ last.erred
    /\ last.op = "allocate"
    /\ last.status = "ok"
    /\ last.after # NULL
    /\ last.addr = last.after
    /\ headHeader = NULL
    /\ Cardinality(Held) = maxBlocks
    /\ maxBlocks = MaxBlocks

absFree ==
    IF mutex # NoThread /\ pc[mutex] \in {"a_stamp", "a_return"}
    THEN <<loc[mutex]>> \o FreeList
    ELSE IF mutex # NoThread /\ pc[mutex] = "d_return"
         THEN Tail(FreeList)
         ELSE FreeList

absHeaders == {absFree[i] : i \in 1 .. Len(absFree)}

\* What the last call to return gave its caller.
absResult == <<last.op, last.arg, last.status, last.addr>>

AtomicConstruct ==
    /\ life = "new"
    /\ absFree = <<>>
    /\ absFree' = IF life' = "alive"
                  THEN [k \in 1 .. maxBlocks |-> (BlockNo(k) - headerSize)']
                  ELSE <<>>
    /\ absResult' = absResult

AtomicAllocate ==
    /\ life = "alive"
    /\ IF absFree = <<>>
       THEN /\ absFree' = absFree
            /\ absResult' = <<"allocate", NULL, "OutOfAllocatableMemory", NULL>>
       ELSE /\ absFree' = Tail(absFree)
            /\ absResult' = <<"allocate", NULL, "ok", Head(absFree) + headerSize>>

AtomicDeallocate(block) ==
    /\ life = "alive"
    /\ IF block \in AllBlocks /\ block - headerSize \notin absHeaders
       THEN /\ absFree' = <<block - headerSize>> \o absFree
            /\ absResult' = <<"deallocate", block, "ok", NULL>>
       ELSE /\ absFree' = absFree
            /\ absResult' = <<"deallocate", block, "InvalidBlockAddress", NULL>>

AtomicNext ==
    \/ AtomicConstruct
    \/ AtomicAllocate
    \/ \E block \in {last'.arg} : AtomicDeallocate(block)

\* C16: every interleaving of the threads' allocate and deallocate steps gives
\* the results and the free list of the calls run one at a time in the order
\* in which they took the mutex: each step of the locked allocator is a step
\* of the atomic allocator or leaves its list and last result alone.
C16_RefinesAtomic ==
    [][UNCHANGED <<absFree, absResult>> \/ AtomicNext]_vars

\* Two threads hold blocks, and one is inside a call that has moved the list
\* head without having returned.
C16_Witness ==
    /\ \A t \in Threads : held[t] # {}
    /\ mutex # NoThread
    /\ pc[mutex] \in {"a_stamp", "a_return", "d_return"}
    /\ absFree # FreeList
    /\ Len(absFree) >= 1
    /\ last.op = "deallocate"
    /\ last.status = "InvalidBlockAddress"

\* The headers of the pool's blocks.
AllHeaders == {b - headerSize : b \in AllBlocks}

\* The two states of a block, read from its header h and the free list.
IsFree(h) == mem[h] \in AllHeaders \cup {NULL} /\ h \in FreeHeaders
IsInUse(h) == mem[h] = blockInUseFlag /\ h \notin FreeHeaders

\* C17: whenever no thread is inside a critical section, each of the
\* maxBlocks blocks is either free (its header holds the address of the next
\* free header or the sentinel, and it is on the list read from headHeader) or
\* in use (its header holds the marker, and it is not on the list), never both
\* and never neither; the free blocks and the blocks in use add up to
\* maxBlocks, and the blocks in use are the ones handed out and not given back.
C17_FreeOrInUse ==
    life = "alive" /\ mutex = NoThread =>
        /\ DOMAIN mem = AllHeaders
        /\ Cardinality(AllHeaders) = maxBlocks
        /\ \A h \in AllHeaders : IsFree(h) # IsInUse(h)
        /\ Cardinality({h \in AllHeaders : IsFree(h)})
             + Cardinality({h \in AllHeaders : IsInUse(h)}) = maxBlocks
        /\ {h + headerSize : h \in {g \in AllHeaders : IsInUse(g)}} = Held

\* Free and used blocks side by side, after a call that was turned away.
C17_Witness ==
    /\ life = "alive"
    /\ mutex = NoThread
    /\ maxBlocks = MaxBlocks
    /\ Cardinality({h \in AllHeaders : IsInUse(h)}) = 2
    /\ Cardinality({h \in AllHeaders : IsFree(h)}) = maxBlocks - 2
    /\ last.status = "InvalidBlockAddress"
    /\ headHeader # startHeader

\* The header that the call holding the mutex has taken off the list and not
\* yet marked, or has unmarked and not yet put on the list.
InTransit ==
    IF mutex # NoThread /\ pc[mutex] \in {"a_stamp", "d_head"}
    THEN {loc[mutex]}
    ELSE {}

\* C18: in every reachable state the next pointers followed from headHeader
\* give a finite chain without a cycle that ends at the sentinel, visits no
\* header twice, and consists of valid header addresses of the pool (from
\* startHeader to endHeader, a whole number of strides from startHeader); it
\* holds precisely the free blocks: every header on it is unmarked, and every
\* header off it is marked, except the one header a running call is moving;
\* between calls the chain is exactly the blocks not handed out. Failed calls and attempted double frees
\* are among the calls of the specification.
C18_FreeListChain ==
    life = "alive" =>
        /\ Len(FreeList) <= maxBlocks
        /\ Cardinality(FreeHeaders) = Len(FreeList)
        /\ \A h \in FreeHeaders :
              /\ startHeader <= h /\ h <= endHeader
              /\ (h - startHeader) % blockWithHeaderSize = 0
              /\ mem[h] # blockInUseFlag
        /\ IF FreeList = <<>>
           THEN headHeader = NULL
           ELSE mem[FreeList[Len(FreeList)]] = NULL
        /\ DOMAIN mem \ FreeHeaders
             = {h \in DOMAIN mem : mem[h] = blockInUseFlag} \cup InTransit
        /\ mutex = NoThread =>
              FreeHeaders = DOMAIN mem \ {b - headerSize : b \in Held}

\* A list of two blocks in other than address order, after a double free was
\* turned away.
C18_Witness ==
    /\ life = "alive"
    /\ Len(FreeList) = 2
    /\ FreeList[1] > FreeList[2]
    /\ last.op = "deallocate"
    /\ last.status = "InvalidBlockAddress"
    /\ last.arg - headerSize \in FreeHeaders
    /\ last.erred

\* ------------------------------------------- pools at any buffer address
\* The addresses a caller's buffer is tried at: every address of the lowest
\* eighth of the address space, where a header can come to lie on or next to
\* the sentinel and the marker, and the address of the other specifications.
BufferBases == (1 .. Modulus \div 8) \cup ExternalBases

\* One thread allocating and deallocating on a pool of small blocks that is
\* internal or lies in a caller's buffer at one of these addresses.
InitAnyBuffer == SetupInitAt({1}, 1 .. MaxBlocks, BufferBases)

NextAnyBuffer ==
    \/ Construct
    \/ Allocate(1)
    \/ Deallocate(1)

SpecAnyBuffer == InitAnyBuffer /\ [][NextAnyBuffer]_vars

\* The marker is not the sentinel and not a header address of the pool, no
\* header on the free list reads as in use, and between calls every block
\* handed out reads as in use.
MarkerDistinct ==
    /\ blockInUseFlag # NULL
    /\ blockInUseFlag \notin AllHeaders
    /\ \A h \in FreeHeaders : ~isBlockInUse(h + headerSize)
    /\ mutex = NoThread => \A b \in Held : isBlockInUse(b)

\* C19 as stated: the marker is distinct from the sentinel and from every
\* valid header address of the pool, for internal pools and for external pools
\* at any buffer address, so that a free block's header never reads as in use
\* and a used block's header never reads as a link.
C19_MarkerDistinctAnywhere ==
    life = "alive" => MarkerDistinct

\* C19, amended: the same for internal pools and for external pools at any
\* buffer address other than the marker's own value, address 1.
C19_MarkerDistinctOffOne ==
    life = "alive" /\ memoryPool # InUseFlag => MarkerDistinct

\* A pool in a caller's buffer at address 2, next to the marker's value, with
\* a free and a used block, after a free block was offered and turned away.
C19_Witness ==
    /\ life = "alive"
    /\ poolType = "External"
    /\ memoryPool = 2
    /\ maxBlocks = MaxBlocks
    /\ Held # {}
    /\ FreeHeaders # {}
    /\ mutex = NoThread
    /\ last.status = "InvalidBlockAddress"
    /\ last.arg - headerSize \in FreeHeaders

\* The pool has been constructed and no call has been made on it.
FreshPool ==
    /\ life = "alive"
    /\ last = NoCall
    /\ \A t \in Threads : pc[t] = "idle"

\* C20: right after a successful construction, for every maxBlocks >= 1 (one
\* block included), all blocks are free: headHeader is startHeader, the header
\* at startHeader + i * stride holds startHeader + (i + 1) * stride for
\* 0 <= i < maxBlocks - 1, the last header, at
\* endHeader = startHeader + stride * (maxBlocks - 1), holds the sentinel, and
\* no header holds the in-use marker.
C20_InitialFreeList ==
    FreshPool =>
        LET stride == blockSize + headerSize
            header(i) == startHeader + i * stride
        IN  /\ maxBlocks >= 1
            /\ headHeader = startHeader
            /\ endHeader = header(maxBlocks - 1)
            /\ DOMAIN mem = {header(i) : i \in 0 .. maxBlocks - 1}
            /\ \A i \in 0 .. maxBlocks - 2 : mem[header(i)] = header(i + 1)
            /\ mem[endHeader] = NULL
            /\ \A h \in DOMAIN mem : mem[h] # blockInUseFlag
            /\ \A i \in 0 .. maxBlocks - 1 : ~isBlockInUse(header(i) + headerSize)
            /\ FreeList = [k \in 1 .. maxBlocks |-> header(k - 1)]

\* A new pool of a single block: its header is the head and the tail at once.
C20_Witness ==
    /\ FreshPool
    /\ maxBlocks = 1
    /\ headHeader = startHeader
    /\ endHeader = startHeader
    /\ mem[startHeader] = NULL
    /\ poolType = "External"

\* The headers that hold the in-use marker.
Marked == {h \in DOMAIN mem : mem[h] = blockInUseFlag}

\* Thread t is inside allocate, past the empty check.
Allocating(t) == pc[t] \in {"a_advance", "a_stamp", "a_return"}

\* C21: a successful allocate() that finds headHeader = h, not the sentinel,
\* sets headHeader to the link stored in h's header, writes the in-use marker
\* into h's header and returns h + headerSize, and nothing else changes: one
\* block goes from free to in use, every other header is as it was, the rest
\* of the free list keeps its order, the pool's parameters are untouched, and
\* no step of another thread changes the pool while the call runs.
C21_AllocateEffect ==
    [][\A t \in Threads :
         /\ pc[t] = "a_check" /\ pc'[t] = "a_advance" =>
               /\ headHeader # NULL
               /\ loc'[t] = headHeader
               /\ PoolState' = PoolState
         /\ pc[t] = "a_advance" /\ pc'[t] = "a_stamp" =>
               /\ loc[t] = headHeader
               /\ headHeader' = mem[loc[t]]
               /\ FreeList = <<loc[t]>> \o FreeList'
               /\ mem' = mem
               /\ poolVars' = poolVars
         /\ pc[t] = "a_stamp" /\ pc'[t] = "a_return" =>
               /\ loc[t] \notin Marked
               /\ Marked' = Marked \cup {loc[t]}
               /\ \A h \in DOMAIN mem \ {loc[t]} : mem'[h] = mem[h]
               /\ DOMAIN mem' = DOMAIN mem
               /\ headHeader' = headHeader
               /\ FreeList' = FreeList
               /\ poolVars' = poolVars
         /\ pc[t] = "a_return" /\ pc'[t] = "idle" =>
               /\ last'.op = "allocate" /\ last'.status = "ok"
               /\ last'.addr = loc[t] + headerSize
               /\ loc[t] \in Marked
               /\ absFree = <<loc[t]>> \o FreeList'
               /\ held'[t] = held[t] \cup {loc[t] + headerSize}
               /\ PoolState' = PoolState
         /\ Allocating(t) /\ pc'[t] = pc[t] => PoolState' = PoolState]_vars

\* An allocate took the head of a list that was not in address order and left
\* the two blocks behind it in their order.
C21_Witness ==
    /\ life = "alive"
    /\ mutex = NoThread
    /\ last.op = "allocate"
    /\ last.status = "ok"
    /\ last.addr - headerSize \in Marked
    /\ Len(FreeList) = 2
    /\ FreeList[1] > FreeList[2]

\* Thread t is inside deallocate, past the in-use check.
Deallocating(t) == pc[t] \in {"d_link", "d_head", "d_return"}

\* C22: a successful deallocate(a) with h = a - headerSize writes the old
\* headHeader into h's header and then sets headHeader to h, and nothing else
\* changes: one block goes from in use to free, the blocks that were free stay
\* on the list in their order behind h, every other block in use keeps its
\* marker, the pool's parameters are untouched, and no step of another thread
\* changes the pool while the call runs.
C22_DeallocateEffect ==
    [][\A t \in Threads :
         /\ pc[t] = "d_check" /\ pc'[t] = "d_link" =>
               /\ arg[t] \in AllBlocks
               /\ loc'[t] = arg[t] - headerSize
               /\ loc'[t] \in Marked
               /\ PoolState' = PoolState
         /\ pc[t] = "d_link" /\ pc'[t] = "d_head" =>
               /\ loc[t] \in Marked
               /\ mem'[loc[t]] = headHeader
               /\ Marked' = Marked \ {loc[t]}
               /\ \A h \in DOMAIN mem \ {loc[t]} : mem'[h] = mem[h]
               /\ DOMAIN mem' = DOMAIN mem
               /\ headHeader' = headHeader
               /\ FreeList' = FreeList
               /\ poolVars' = poolVars
         /\ pc[t] = "d_head" /\ pc'[t] = "d_return" =>
               /\ headHeader' = loc[t]
               /\ FreeList' = <<loc[t]>> \o FreeList
               /\ mem' = mem
               /\ poolVars' = poolVars
         /\ pc[t] = "d_return" /\ pc'[t] = "idle" =>
               /\ last'.op = "deallocate" /\ last'.status = "ok"
               /\ last'.arg = loc[t] + headerSize
               /\ FreeList' = <<loc[t]>> \o absFree
               /\ held'[t] = held[t] \ {loc[t] + headerSize}
               /\ PoolState' = PoolState
         /\ Deallocating(t) /\ pc'[t] = pc[t] => PoolState' = PoolState]_vars

\* A block was pushed onto a list that held another, while a third block
\* stays in use.
C22_Witness ==
    /\ life = "alive"
    /\ mutex = NoThread
    /\ last.op = "deallocate"
    /\ last.status = "ok"
    /\ FreeList = <<last.arg - headerSize, endHeader - blockWithHeaderSize>>
    /\ Cardinality(Marked) = 1
    /\ Held = {lastBlock}

\* ------------------------------------------------- the run of frees
\* Threads allocating and deallocating on a pool of small blocks, with the
\* run of frees kept on record.
InitStack == SetupInitFrom({1}, 1 .. MaxBlocks, ExternalBases, NoCallTraced)

NextStack ==
    \/ Construct
    \/ \E t \in Threads : Allocate(t)
    \/ \E t \in Threads : Deallocate(t)

SpecStack == InitStack /\ [][NextStack]_vars

\* Thread t's call returns in this step.
Returns(t) == pc[t] # "idle" /\ pc'[t] = "idle"

\* C23: when in-use blocks x1, ..., xk have been given back in that order by
\* successful deallocate calls with no allocate among them, the next k
\* allocate calls, with no deallocate among them, return xk, ..., x1: each
\* allocate that returns while the run of frees is not used up succeeds with
\* the newest address left on it. After filling the pool and freeing every
\* block in ascending order the next allocate returns the last block, after
\* freeing in descending order the first block.
C23_StackDiscipline ==
    [][\A t \in Threads :
         Returns(t) /\ last'.op = "allocate" /\ last.run # <<>> =>
            /\ last'.status = "ok"
            /\ last'.addr = last.run[Len(last.run)]
            /\ last'.run = SubSeq(last.run, 1, Len(last.run) - 1)]_vars

\* The pool was filled and every block given back in ascending order; the
\* allocate calls since then have returned the last block and the one before
\* it, and the first block is still due.
C23_Witness ==
    /\ maxBlocks = MaxBlocks
    /\ last.op = "allocate"
    /\ last.status = "ok"
    /\ last.taking
    /\ last.run = <<firstBlock>>
    /\ last.addr = lastBlock - blockWithHeaderSize
    /\ Held = {lastBlock, last.addr}

\* Thread t is inside the body of allocate or deallocate, behind the lock.
InBody(t) == pc[t] \notin {"idle", "a_lock", "d_lock"}

\* C24: at most one thread at a time is inside the body of allocate or
\* deallocate, and it holds the mutex; after construction every step that
\* writes headHeader or a header, and every step in which allocate or
\* deallocate decides on what it read (the empty check, the in-use check), is
\* a step of the thread that holds the mutex.
C24_MutualExclusion ==
    /\ [](/\ Cardinality({t \in Threads : InBody(t)}) <= 1
          /\ \A t \in Threads : InBody(t) => mutex = t)
    /\ [][life = "alive" =>
            /\ headHeader' # headHeader \/ mem' # mem =>
                  /\ mutex # NoThread
                  /\ pc'[mutex] # pc[mutex]
                  /\ \A u \in Threads \ {mutex} : pc'[u] = pc[u]
            /\ \A t \in Threads :
                  pc[t] \in {"a_check", "d_check"} /\ pc'[t] # pc[t] => mutex = t]_vars

\* One thread is about to write a header while the other, which holds a
\* block, is outside.
C24_Witness ==
    /\ mutex = 2
    /\ pc[2] = "a_stamp"
    /\ pc[1] = "idle"
    /\ held[1] # {}
    /\ last.op = "deallocate"
    /\ last.status = "ok"

\* ------------------------------------------- one allocate per thread
\* Every thread calls allocate on a new pool of at least two blocks until it
\* has a block; a call that finds the mutex taken waits for it.
InitPair == SetupInitAt({1, 3}, 2 .. MaxBlocks, ExternalBases)

NextPair ==
    \/ Construct
    \/ \E t \in Threads : held[t] = {} /\ CallAllocate(t)
    \/ \E t \in Threads : held[t] = {} /\ Allocate(t)

SpecPair == InitPair /\ [][NextPair]_vars

secondBlock == firstBlock + blockSize + headerSize

\* C25: two threads that each call allocate() once, at the same time, on a
\* new pool of two or more blocks both succeed, and the two addresses they get
\* are different and are the first block (startHeader + headerSize) and the
\* second block (the first + blockSize + headerSize), one each in either
\* order, however their steps interleave.
C25_TwoThreadsTwoBlocks ==
    life = "alive" =>
        /\ last.op = "allocate" /\ last.seq <= 2 => last.status = "ok"
        /\ last.seq = 1 => Held = {firstBlock}
        /\ last.seq = 2 =>
              /\ Held = {firstBlock, secondBlock}
              /\ \E t, u \in Threads :
                    /\ t # u
                    /\ held[t] = {firstBlock}
                    /\ held[u] = {secondBlock}

\* The second thread came to the mutex while the first was inside, waited,
\* and got the second block.
C25_Witness ==
    /\ last.seq = 2
    /\ last.status = "ok"
    /\ held[1] = {secondBlock}
    /\ held[2] = {firstBlock}
    /\ maxBlocks = 2
    /\ poolType = "Internal"

\* ------------------------------------------------ get, release, get again
\* The blocks each thread acquires: an even share of a pool of at most
\* MaxBlocks + 1 blocks.
BlocksEach == (MaxBlocks + 1) \div NumThreads

\* A pool of exactly BlocksEach blocks per thread.
InitWork == SetupInitAt({1}, {NumThreads * BlocksEach}, ExternalBases)

\* The thread has released everything and stands at the barrier or beyond.
Released(t) == phase[t] \in {"wait", "get2", "done"}

\* getAndRealeasBlocks between the calls: the thread starts, goes from getting
\* to releasing when it has its blocks, to the barrier when it has none, past
\* the barrier when every thread has released, and is done when it has its
\* blocks again.
Advance(t) ==
    /\ life = "alive"
    /\ pc[t] = "idle"
    /\ \/ phase[t] = "free" /\ phase' = [phase EXCEPT ![t] = "get1"]
       \/ /\ phase[t] = "get1"
          /\ Cardinality(held[t]) = BlocksEach
          /\ phase' = [phase EXCEPT ![t] = "release"]
       \/ /\ phase[t] = "release"
          /\ held[t] = {}
          /\ phase' = [phase EXCEPT ![t] = "wait"]
       \/ /\ phase[t] = "wait"
          /\ \A u \in Threads : Released(u)
          /\ phase' = [phase EXCEPT ![t] = "get2"]
       \/ /\ phase[t] = "get2"
          /\ Cardinality(held[t]) = BlocksEach
          /\ phase' = [phase EXCEPT ![t] = "done"]
    /\ UNCHANGED <<poolVars, headHeader, mem, mutex, sys, asked, pc, arg, loc, held, last>>

\* getBlocks: allocate, again after every throw, until the thread has its
\* blocks.
GetBlocks(t) ==
    /\ phase[t] \in {"get1", "get2"}
    /\ Cardinality(held[t]) < BlocksEach
    /\ CallAllocate(t) \/ Allocate(t)

\* releaseBlocks: deallocate a block of the thread's own, until it has none.
ReleaseBlocks(t) ==
    /\ phase[t] = "release"
    /\ held[t] # {}
    /\ CallDeallocate(t) \/ Deallocate(t)
    /\ pc'[t] = "d_check" => arg'[t] \in held[t]

AllDone == \A t \in Threads : phase[t] = "done"

Work(t) == Advance(t) \/ GetBlocks(t) \/ ReleaseBlocks(t)

NextWork ==
    \/ Construct
    \/ \E t \in Threads : Advance(t)
    \/ \E t \in Threads : GetBlocks(t)
    \/ \E t \in Threads : ReleaseBlocks(t)
    \/ AllDone /\ Destroy

\* Every thread that can take a step of its program takes one in the end.
FairWork == \A t \in Threads : WF_vars(Work(t))

SpecWork == InitWork /\ [][NextWork]_vars /\ FairWork

DeallocLockSharedMissing(t) ==
    /\ life = "alive"
    /\ pc[t] \in {"idle", "d_lock"}
    /\ \E block \in AllBlocks : arg' = [arg EXCEPT ![t] = block]
    /\ pc' = [pc EXCEPT ![t] = "d_check"]
    /\ UNCHANGED <<poolVars, headHeader, mem, mutex, envVars, loc, held, last>>

\* line 99, with the address of any block as the argument
DeallocLockShared(t) ==
    /\ life = "alive"
    /\ pc[t] \in {"idle", "d_lock"}
    /\ lockAcquire(t)
    /\ \E block \in AllBlocks : arg' = [arg EXCEPT ![t] = block]
    /\ pc' = [pc EXCEPT ![t] = "d_check"]
    /\ UNCHANGED <<poolVars, headHeader, mem, envVars, loc, held, last>>

DeallocateShared(t) ==
    \/ CallDeallocate(t)
    \/ DeallocLockShared(t)
    \/ DeallocCheck(t)
    \/ DeallocLink(t)
    \/ DeallocHead(t)
    \/ DeallocReturn(t)

InitShared == SetupInitAt({1}, 1 .. MaxBlocks, ExternalBases)

NextShared ==
    \/ Construct
    \/ \E t \in Threads : Allocate(t)
    \/ \E t \in Threads : DeallocateShared(t)

SpecShared == InitShared /\ [][NextShared]_vars

\* C27: the in-use check and the push of deallocate are one step as far as
\* other threads can tell. When threads call deallocate on the same address
\* of a block in use, the call that gets the mutex first succeeds and every
\* call on that address after it, until an allocate returns the address again,
\* throws InvalidBlockAddress and leaves the pool alone; the block is on the
\* free list exactly once afterwards.
C27_OneDeallocateWins ==
    /\ [][\A t \in Threads :
            DeallocDecides(t) =>
               /\ pc'[t] = "d_link" <=> arg[t] \in Held
               /\ pc'[t] # "d_link" =>
                     /\ last'.status = "InvalidBlockAddress"
                     /\ PoolState' = PoolState]_vars
    /\ [](last.op = "deallocate" /\ last.after = last.arg =>
            last.status = "InvalidBlockAddress")
    /\ [](life = "alive" =>
            /\ Cardinality(FreeHeaders) = Len(FreeList)
            /\ Len(FreeList) <= maxBlocks
            /\ mutex = NoThread /\ last.op = "deallocate" =>
                  Cardinality({i \in 1 .. Len(FreeList) :
                                  FreeList[i] = last.arg - headerSize}) = 1)

\* The last block was given back, and the next call to return, a deallocate
\* of the same address, was turned away; the first block is in use, and a
\* thread waits for the mutex that the other holds.
C27_Witness ==
    /\ last.op = "deallocate"
    /\ last.status = "InvalidBlockAddress"
    /\ last.after = last.arg
    /\ last.arg = lastBlock
    /\ maxBlocks = 2
    /\ FreeList = <<endHeader>>
    /\ Held = {firstBlock}
    /\ pc[2] = "d_lock"
    /\ mutex = 1
====
